---- MODULE Spec2Model ----
(***************************************************************************)
(* Model of Transceiver52M/osmo-trx-dec.cpp: the option handling of the    *)
(* decoder tool (handle_options), its main(), the detection cascade        *)
(* (detectBurst) and the demodulation orchestrator (demodulateBurst).      *)
(*                                                                         *)
(* Number representation.  The C++ code computes with float/double; the    *)
(* model uses integers:                                                    *)
(*   - correlator return codes and CorrType values are the C ints;         *)
(*   - thresholds 5.0 / 6.0 are the integers 5 / 6;                        *)
(*   - amplitudes are opaque integer tokens (the complex value is only     *)
(*     passed on, never computed with);                                    *)
(*   - time of arrival is a whole number of samples and timingOffset is    *)
(*     kept in quarter symbols (the float division by 1 or 4 is exact);    *)
(*   - RSSI is kept in thousandths of a dB, or +infinity (average 0).      *)
(***************************************************************************)
EXTENDS Integers, Sequences, FiniteSets, TLC

VARIABLES
  pc,            \* position of the program
  argv,          \* command-line options not yet returned by getopt
  config,        \* struct trx_config
  out,           \* messages written so far (stdout and LOG), in order
  exit_code,     \* <<>> while running, <<c>> once the process ended with c
  burst,         \* the signalVector handed to demodulateBurst
  fileRead,      \* number of floats requested from the input file
  type,          \* demodulateBurst's parameter `type` (reassigned, line 107)
  reqType,       \* the value `type` had when demodulateBurst was entered
  SPSRx,         \* demodulateBurst's parameter SPSRx
  rc,            \* demodulateBurst's local rc
  amp,           \* demodulateBurst's local amp
  toa,           \* demodulateBurst's local toa
  RSSI,          \* the caller's RSSI (out-parameter)
  timingOffset,  \* the caller's timingOffset (out-parameter), quarter symbols
  calls,         \* calls made to the signal processing library, in order
  ret            \* value returned by demodulateBurst

vars == <<pc, argv, config, out, exit_code, burst, fileRead, type, reqType,
          SPSRx, rc, amp, toa, RSSI, timingOffset, calls, ret>>

(***************************************************************************)
(* Constants of the program                                                *)
(***************************************************************************)
OFF == 0
TSC == 1
RACH == 2
EDGE == 3
IDLE == 4
CorrType == {OFF, TSC, RACH, EDGE, IDLE}

DEFAULT_RX_SPS == 1
SHRT_MAX == 32767
DEFAULT_MAX_DELAY == 30
BURST_SIZE == 156

\* enum signalError of sigProcLib.h
SIGERR_NONE == 0
SIGERR_CLIP == 2
SIGERR_INTERNAL == 4

(***************************************************************************)
(* Bounds and input sets                                                   *)
(***************************************************************************)
MaxArgs == 3        \* longest command line (number of options)
MaxToa == 1         \* time of arrival estimates range over -MaxToa..MaxToa

\* What getopt can meet on the command line: the option letter and the text
\* that follows it ("x" stands for any letter outside the option string).
Tokens ==
  { [opt |-> "l", arg |-> <<"D">>],
    [opt |-> "s", arg |-> <<"1">>],
    [opt |-> "s", arg |-> <<"4">>],
    [opt |-> "s", arg |-> <<"2">>],
    [opt |-> "s", arg |-> <<"a">>],
    [opt |-> "e", arg |-> <<>>],
    [opt |-> "t", arg |-> <<"7">>],
    [opt |-> "t", arg |-> <<"1", "0">>],
    [opt |-> "f", arg |-> <<"b">>],
    [opt |-> "h", arg |-> <<>>],
    [opt |-> "x", arg |-> <<>>] }

CommandLines == UNION { [1..n -> Tokens] : n \in 0..MaxArgs }

\* Values an uninitialised int/float/double may hold.
Garbage == {-7, 9}

\* Average energies the estimator may report for a burst.
AvgSet == {0, 100, SHRT_MAX}

\* Return codes of a correlator: two errors, no burst, and a positive score.
RcSet == {-SIGERR_INTERNAL, -SIGERR_CLIP, SIGERR_NONE, 3}
ToaSet == (-MaxToa)..MaxToa
AmpSet == {1, 2}

\* What one correlator call produces: return code and the two out-parameters.
Outcomes == [rc : RcSet, amp : AmpSet, toa : ToaSet]
NotCalled == [rc |-> 0, amp |-> 0, toa |-> 0]

\* What a demodulator returns.
SoftVectors == {"NULL", "SoftVector"}

(***************************************************************************)
(* handle_options                                                          *)
(***************************************************************************)
\* The defaults handle_options stores before it reads the command line.
DefaultConfig ==
  [ log_level |-> "NOTICE",
    rx_sps |-> DEFAULT_RX_SPS,
    rtsc |-> 0,
    max_expected_delay_nb |-> DEFAULT_MAX_DELAY,
    max_expected_delay_ab |-> DEFAULT_MAX_DELAY,
    rx_full_scale |-> SHRT_MAX,
    edge |-> FALSE,
    type |-> TSC,
    filename |-> "" ]

IsDigit(c) == c \in {"0", "1", "2", "3", "4", "5", "6", "7", "8", "9"}

DigitVal(c) ==
  CASE c = "0" -> 0 [] c = "1" -> 1 [] c = "2" -> 2 [] c = "3" -> 3
    [] c = "4" -> 4 [] c = "5" -> 5 [] c = "6" -> 6 [] c = "7" -> 7
    [] c = "8" -> 8 [] c = "9" -> 9

\* atoi on a text without sign or leading blanks: the value of the leading
\* digits, 0 when there is none.
RECURSIVE AtoiFrom(_, _, _)
AtoiFrom(s, i, acc) ==
  IF i > Len(s) \/ ~IsDigit(s[i]) THEN acc
  ELSE AtoiFrom(s, i + 1, 10 * acc + DigitVal(s[i]))

atoi(s) == AtoiFrom(s, 1, 0)

\* The option string "ls:et:f:h": the letters getopt knows, and whether a
\* letter is followed by a colon (takes an argument).
OptTakesArg == [l |-> FALSE, s |-> TRUE, e |-> FALSE, t |-> TRUE, f |-> TRUE, h |-> FALSE]

\* getopt on one command-line token: the option character it returns ("?"
\* for a letter outside the option string) and whether optarg is set; optarg
\* is the null pointer for a letter without a colon.
getopt(tok) ==
  IF tok.opt \in DOMAIN OptTakesArg
  THEN [option |-> tok.opt,
        optarg_null |-> ~OptTakesArg[tok.opt],
        optarg |-> IF OptTakesArg[tok.opt] THEN tok.arg ELSE <<>>]
  ELSE [option |-> "?", optarg_null |-> TRUE, optarg |-> <<>>]

\* The three checks handle_options makes after the option loop, in order:
\* the error line printed by the first one that fails, "ok" when none does.
ValidateConfig_NoTscCheck(cfg) ==
  IF (cfg.rx_sps # 1) /\ (cfg.rx_sps # 4) THEN "Unsupported samples-per-symbol"
  ELSE IF cfg.edge /\ (cfg.rx_sps # 4) THEN "EDGE only supported at 4 samples per symbol"
  ELSE "ok"

ValidateConfig_NoEdgeCheck(cfg) ==
  IF (cfg.rx_sps # 1) /\ (cfg.rx_sps # 4) THEN "Unsupported samples-per-symbol"
  ELSE IF cfg.rtsc > 7 THEN "Invalid training sequence"
  ELSE "ok"

ValidateConfig(cfg) ==
  IF (cfg.rx_sps # 1) /\ (cfg.rx_sps # 4) THEN "Unsupported samples-per-symbol"
  ELSE IF cfg.edge /\ (cfg.rx_sps # 4) THEN "EDGE only supported at 4 samples per symbol"
  ELSE IF cfg.rtsc > 7 THEN "Invalid training sequence"
  ELSE "ok"

(***************************************************************************)
(* detectBurst                                                             *)
(***************************************************************************)
Call(fn, args, res) == [fn |-> fn, args |-> args, res |-> res]

EdgeCall(cfg, e) ==
  Call("detectEdgeBurst",
       <<cfg.rtsc, 5, cfg.rx_sps, cfg.max_expected_delay_nb>>,
       <<e.rc, e.amp, e.toa>>)

TscCall(cfg, t) ==
  Call("analyzeTrafficBurst",
       <<cfg.rtsc, 5, cfg.rx_sps, cfg.max_expected_delay_nb>>,
       <<t.rc, t.amp, t.toa>>)

RachCall(cfg, r) ==
  Call("detectRACHBurst",
       <<6, cfg.rx_sps, cfg.max_expected_delay_ab>>,
       <<r.rc, r.amp, r.toa>>)

\* detectSwitch with the fall-through from EDGE leaving the type EDGE.
detectSwitch_Relabel(cfg, amp0, toa0, type0, e, t, r) ==
  CASE type0 = EDGE /\ e.rc > 0 ->
         [rc |-> e.rc, type |-> EDGE, amp |-> e.amp, toa |-> e.toa,
          calls |-> <<EdgeCall(cfg, e)>>, log |-> <<>>]
    [] type0 = EDGE /\ ~(e.rc > 0) ->
         [rc |-> t.rc, type |-> EDGE, amp |-> t.amp, toa |-> t.toa,
          calls |-> <<EdgeCall(cfg, e), TscCall(cfg, t)>>, log |-> <<>>]
    [] type0 = TSC ->
         [rc |-> t.rc, type |-> TSC, amp |-> t.amp, toa |-> t.toa,
          calls |-> <<TscCall(cfg, t)>>, log |-> <<>>]
    [] type0 = RACH ->
         [rc |-> r.rc, type |-> RACH, amp |-> r.amp, toa |-> r.toa,
          calls |-> <<RachCall(cfg, r)>>, log |-> <<>>]
    [] type0 = IDLE ->
         [rc |-> SIGERR_NONE, type |-> IDLE, amp |-> amp0, toa |-> toa0,
          calls |-> <<>>, log |-> <<>>]
    [] OTHER ->
         [rc |-> 0, type |-> type0, amp |-> amp0, toa |-> toa0,
          calls |-> <<>>, log |-> <<"Invalid correlation type">>]

\* detectSwitch without the IDLE case: IDLE reaches the default branch.
detectSwitch_NoIdleCase(cfg, amp0, toa0, type0, e, t, r) ==
  CASE type0 = EDGE /\ e.rc > 0 ->
         [rc |-> e.rc, type |-> EDGE, amp |-> e.amp, toa |-> e.toa,
          calls |-> <<EdgeCall(cfg, e)>>, log |-> <<>>]
    [] type0 = EDGE /\ ~(e.rc > 0) ->
         [rc |-> t.rc, type |-> TSC, amp |-> t.amp, toa |-> t.toa,
          calls |-> <<EdgeCall(cfg, e), TscCall(cfg, t)>>, log |-> <<>>]
    [] type0 = TSC ->
         [rc |-> t.rc, type |-> TSC, amp |-> t.amp, toa |-> t.toa,
          calls |-> <<TscCall(cfg, t)>>, log |-> <<>>]
    [] type0 = RACH ->
         [rc |-> r.rc, type |-> RACH, amp |-> r.amp, toa |-> r.toa,
          calls |-> <<RachCall(cfg, r)>>, log |-> <<>>]
    [] OTHER ->
         [rc |-> 0, type |-> type0, amp |-> amp0, toa |-> toa0,
          calls |-> <<>>, log |-> <<"Invalid correlation type">>]

\* detectSwitch keeping an error code of the EDGE correlator when the
\* normal-burst correlator finds nothing.
detectSwitch_KeepEdgeError(cfg, amp0, toa0, type0, e, t, r) ==
  CASE type0 = EDGE /\ e.rc > 0 ->
         [rc |-> e.rc, type |-> EDGE, amp |-> e.amp, toa |-> e.toa,
          calls |-> <<EdgeCall(cfg, e)>>, log |-> <<>>]
    [] type0 = EDGE /\ ~(e.rc > 0) ->
         [rc |-> IF t.rc = SIGERR_NONE THEN e.rc ELSE t.rc,
          type |-> TSC, amp |-> t.amp, toa |-> t.toa,
          calls |-> <<EdgeCall(cfg, e), TscCall(cfg, t)>>, log |-> <<>>]
    [] type0 = TSC ->
         [rc |-> t.rc, type |-> TSC, amp |-> t.amp, toa |-> t.toa,
          calls |-> <<TscCall(cfg, t)>>, log |-> <<>>]
    [] type0 = RACH ->
         [rc |-> r.rc, type |-> RACH, amp |-> r.amp, toa |-> r.toa,
          calls |-> <<RachCall(cfg, r)>>, log |-> <<>>]
    [] type0 = IDLE ->
         [rc |-> SIGERR_NONE, type |-> IDLE, amp |-> amp0, toa |-> toa0,
          calls |-> <<>>, log |-> <<>>]
    [] OTHER ->
         [rc |-> 0, type |-> type0, amp |-> amp0, toa |-> toa0,
          calls |-> <<>>, log |-> <<"Invalid correlation type">>]

\* The switch of detectBurst.  amp0/toa0 are the caller's amp and toa on
\* entry; e, t, r are what the EDGE, normal-burst and RACH correlators
\* produce if called.  The result is the state after the switch: the local
\* rc, the local type, the caller's amp and toa, the correlator calls made
\* and the lines logged.
detectSwitch(cfg, amp0, toa0, type0, e, t, r) ==
  CASE type0 = EDGE /\ e.rc > 0 ->
         [rc |-> e.rc, type |-> EDGE, amp |-> e.amp, toa |-> e.toa,
          calls |-> <<EdgeCall(cfg, e)>>, log |-> <<>>]
    [] type0 = EDGE /\ ~(e.rc > 0) ->
         [rc |-> t.rc, type |-> TSC, amp |-> t.amp, toa |-> t.toa,
          calls |-> <<EdgeCall(cfg, e), TscCall(cfg, t)>>, log |-> <<>>]
    [] type0 = TSC ->
         [rc |-> t.rc, type |-> TSC, amp |-> t.amp, toa |-> t.toa,
          calls |-> <<TscCall(cfg, t)>>, log |-> <<>>]
    [] type0 = RACH ->
         [rc |-> r.rc, type |-> RACH, amp |-> r.amp, toa |-> r.toa,
          calls |-> <<RachCall(cfg, r)>>, log |-> <<>>]
    [] type0 = IDLE ->
         [rc |-> SIGERR_NONE, type |-> IDLE, amp |-> amp0, toa |-> toa0,
          calls |-> <<>>, log |-> <<>>]
    [] OTHER ->
         [rc |-> 0, type |-> type0, amp |-> amp0, toa |-> toa0,
          calls |-> <<>>, log |-> <<"Invalid correlation type">>]

\* detectBurst: the switch, then `if (rc > 0) return type; return rc;`.
detectBurst(cfg, amp0, toa0, type0, e, t, r) ==
  LET s == detectSwitch(cfg, amp0, toa0, type0, e, t, r)
  IN  [ret |-> IF s.rc > 0 THEN s.type ELSE s.rc,
       amp |-> s.amp, toa |-> s.toa, calls |-> s.calls, log |-> s.log]

(***************************************************************************)
(* demodulateBurst                                                         *)
(***************************************************************************)
\* log10 in units of 1/100000, rounded down, on the values the model uses
\* (log10(32767) = 4.515436...).
Log10E5(x) ==
  CASE x = 1 -> 0 [] x = 10 -> 100000 [] x = 100 -> 200000 [] x = 1000 -> 300000
    [] x = 10000 -> 400000 [] x = SHRT_MAX -> 451543

\* RSSI = 20.0 * log10(rx_full_scale / avg), in thousandths of a dB; the
\* division by a zero average gives +infinity.
RssiOf(full_scale, avg) ==
  IF avg = 0 THEN [inf |-> TRUE, mdb |-> 0]
  ELSE [inf |-> FALSE, mdb |-> (20 * (Log10E5(full_scale) - Log10E5(avg))) \div 100]

\* The division done on integers, as if toa were an int.
TimingOffsetOf_IntDiv(t, sps) == 4 * (t \div sps)

\* timingOffset = toa / SPSRx (a float division), in quarter symbols.
TimingOffsetOf(t, sps) == (4 * t) \div sps

\* The clipping test written against SIGERR_CLIP instead of -SIGERR_CLIP.
DetectionMessages_WrongSign(code) ==
  IF code = SIGERR_CLIP
  THEN <<"Clipping detected on received RACH or Normal Burst">>
  ELSE IF code # SIGERR_NONE
  THEN <<"Unhandled RACH or Normal Burst detection error">>
  ELSE <<>>

\* Lines 109-113: what demodulateBurst writes for a non-positive code.
DetectionMessages(code) ==
  IF code = -SIGERR_CLIP
  THEN <<"Clipping detected on received RACH or Normal Burst">>
  ELSE IF code # SIGERR_NONE
  THEN <<"Unhandled RACH or Normal Burst detection error">>
  ELSE <<>>

\* The requested type kept instead of the detected one.
ResolvedType_KeepRequested(code, requested) == requested

\* Line 107: the type demodulateBurst goes on with after a positive code.
ResolvedType(code, requested) == code

\* Lines 119-122: the demodulator demodulateBurst calls.
Demodulator(ty) == IF ty = EDGE THEN "demodEdgeBurst" ELSE "demodulateBurst"

(***************************************************************************)
(* Steps of the program                                                    *)
(***************************************************************************)
\* One iteration of the option loop of handle_options on the option getopt
\* returned.  Assigning the null optarg of -l to the std::string log_level
\* is undefined: `ub` is what the build makes of it.
HandleOption(cfg, g, ub) ==
  CASE g.option = "l" ->
         IF g.optarg_null
         THEN IF ub = "crash"
              THEN [pc |-> "crashed", config |-> cfg, out |-> <<>>, exit |-> <<139>>]
              ELSE [pc |-> "getopt", config |-> [cfg EXCEPT !.log_level = "?"],
                    out |-> <<>>, exit |-> <<>>]
         ELSE [pc |-> "getopt", config |-> [cfg EXCEPT !.log_level = "arg"],
               out |-> <<>>, exit |-> <<>>]
    [] g.option = "s" ->
         [pc |-> "getopt", config |-> [cfg EXCEPT !.rx_sps = atoi(g.optarg)],
          out |-> <<>>, exit |-> <<>>]
    [] g.option = "e" ->
         [pc |-> "getopt", config |-> [cfg EXCEPT !.edge = TRUE],
          out |-> <<>>, exit |-> <<>>]
    [] g.option = "t" ->
         [pc |-> "getopt", config |-> [cfg EXCEPT !.rtsc = atoi(g.optarg)],
          out |-> <<>>, exit |-> <<>>]
    [] g.option = "f" ->
         [pc |-> "getopt", config |-> [cfg EXCEPT !.filename = "file"],
          out |-> <<>>, exit |-> <<>>]
    [] OTHER ->
         [pc |-> "help_exit", config |-> cfg, out |-> <<"help">>, exit |-> <<0>>]

UBOutcomes == {"crash", "continue"}

GetoptStep ==
  /\ pc = "getopt"
  /\ argv # <<>>
  /\ \E ub \in UBOutcomes :
       LET h == HandleOption(config, getopt(Head(argv)), ub)
       IN  /\ pc' = h.pc
           /\ config' = h.config
           /\ out' = out \o h.out
           /\ exit_code' = h.exit
  /\ argv' = Tail(argv)
  /\ UNCHANGED <<burst, fileRead, type, reqType, SPSRx, rc, amp, toa, RSSI,
                 timingOffset, calls, ret>>

\* getopt returns -1: the loop ends and the configuration is checked.
ValidateStep ==
  /\ pc = "getopt"
  /\ argv = <<>>
  /\ LET v == ValidateConfig(config)
     IN  IF v = "ok"
         THEN /\ pc' = "accepted"
              /\ UNCHANGED <<out, exit_code>>
         ELSE /\ pc' = "rejected"
              /\ out' = out \o <<v, "help">>
              /\ exit_code' = <<0>>
  /\ UNCHANGED <<argv, config, burst, fileRead, type, reqType, SPSRx, rc, amp,
                 toa, RSSI, timingOffset, calls, ret>>

\* print_config builds the settings text in the ostringstream ost and then
\* streams the stream object itself (`std::cout << ost`), not ost.str(): what
\* reaches stdout is one line holding the stream's conversion to void*, an
\* address that differs from run to run and does not depend on the
\* configuration.  "<address>" stands for that pointer value.
print_config(cfg) == <<"<address>">>

\* main, from print_config to the file read: the burst is allocated and
\* filled from the file; RSSI and timingOffset are declared uninitialised.
MainSetup ==
  /\ pc = "accepted"
  /\ out' = out \o print_config(config)
  /\ \E a \in AvgSet : burst' = [len |-> BURST_SIZE, avg |-> a]
  /\ fileRead' = BURST_SIZE * 2
  /\ \E g \in Garbage : RSSI' = [inf |-> FALSE, mdb |-> g]
  /\ timingOffset' \in Garbage
  /\ pc' = "call"
  /\ UNCHANGED <<argv, config, exit_code, type, reqType, SPSRx, rc, amp, toa,
                 calls, ret>>

\* main calls demodulateBurst(config, burst, config.rx_sps, RSSI,
\* timingOffset, config.type); its locals rc, amp, toa are uninitialised.
MainCall ==
  /\ pc = "call"
  /\ type' = config.type
  /\ reqType' = config.type
  /\ SPSRx' = config.rx_sps
  /\ rc' \in Garbage
  /\ amp' \in Garbage
  /\ toa' \in Garbage
  /\ pc' = "energy"
  /\ UNCHANGED <<argv, config, out, exit_code, burst, fileRead, RSSI,
                 timingOffset, calls, ret>>

\* Lines 100-101.
EnergyStep_NoRssi ==
  /\ pc = "energy"
  /\ calls' = Append(calls, Call("energyDetect", <<20 * config.rx_sps, 0>>, <<burst.avg>>))
  /\ pc' = "detect"
  /\ UNCHANGED <<argv, config, out, exit_code, burst, fileRead, type, reqType,
                 SPSRx, rc, amp, toa, RSSI, timingOffset, ret>>

EnergyStep ==
  /\ pc = "energy"
  /\ calls' = Append(calls, Call("energyDetect", <<20 * config.rx_sps, 0>>, <<burst.avg>>))
  /\ RSSI' = RssiOf(config.rx_full_scale, burst.avg)
  /\ pc' = "detect"
  /\ UNCHANGED <<argv, config, out, exit_code, burst, fileRead, type, reqType,
                 SPSRx, rc, amp, toa, timingOffset, ret>>

\* Line 104: the call of detectBurst.
DetectStep ==
  /\ pc = "detect"
  /\ \E e \in (IF type = EDGE THEN Outcomes ELSE {NotCalled}) :
     \E t \in (IF type \in {EDGE, TSC} THEN Outcomes ELSE {NotCalled}) :
     \E r \in (IF type = RACH THEN Outcomes ELSE {NotCalled}) :
       LET d == detectBurst(config, amp, toa, type, e, t, r)
       IN  /\ rc' = d.ret
           /\ amp' = d.amp
           /\ toa' = d.toa
           /\ calls' = calls \o d.calls
           /\ out' = out \o d.log
  /\ pc' = "check"
  /\ UNCHANGED <<argv, config, exit_code, burst, fileRead, type, reqType,
                 SPSRx, RSSI, timingOffset, ret>>

\* Lines 106-115.
CheckStep ==
  /\ pc = "check"
  /\ IF rc > 0
     THEN /\ type' = ResolvedType(rc, type)
          /\ pc' = "dispatch"
          /\ UNCHANGED <<out, ret>>
     ELSE /\ out' = out \o DetectionMessages(rc)
          /\ ret' = "NULL"
          /\ pc' = "returned"
          /\ UNCHANGED type
  /\ UNCHANGED <<argv, config, exit_code, burst, fileRead, reqType, SPSRx, rc,
                 amp, toa, RSSI, timingOffset, calls>>

\* Lines 117-122.
DispatchStep ==
  /\ pc = "dispatch"
  /\ timingOffset' = TimingOffsetOf(toa, SPSRx)
  /\ calls' = Append(calls, Call(Demodulator(type), <<config.rx_sps, amp, toa>>, <<>>))
  /\ ret' \in SoftVectors
  /\ pc' = "returned"
  /\ UNCHANGED <<argv, config, out, exit_code, burst, fileRead, type, reqType,
                 SPSRx, rc, amp, toa, RSSI>>

\* Lines 225-227: delete softBits; return 0.
MainReturn ==
  /\ pc = "returned"
  /\ exit_code' = <<0>>
  /\ pc' = "done"
  /\ UNCHANGED <<argv, config, out, burst, fileRead, type, reqType, SPSRx, rc,
                 amp, toa, RSSI, timingOffset, calls, ret>>

(***************************************************************************)
(* Specifications                                                          *)
(***************************************************************************)
\* Configurations demodulateBurst and detectBurst may be handed.
SpsSet == {1, 4}
RtscSet == {0, 7}
Configs ==
  { [DefaultConfig EXCEPT !.rx_sps = s, !.rtsc = k, !.edge = b] :
      s \in SpsSet, k \in RtscSet, b \in BOOLEAN }

\* demodulateBurst called with any configuration, burst and requested type.
Init ==
  /\ pc = "energy"
  /\ argv = <<>>
  /\ config \in Configs
  /\ out = <<>>
  /\ exit_code = <<>>
  /\ burst \in [len : {BURST_SIZE}, avg : AvgSet]
  /\ fileRead = 0
  /\ type \in CorrType
  /\ reqType = type
  /\ SPSRx \in SpsSet
  /\ rc \in Garbage
  /\ amp \in Garbage
  /\ toa \in Garbage
  /\ RSSI \in [inf : {FALSE}, mdb : Garbage]
  /\ timingOffset \in Garbage
  /\ calls = <<>>
  /\ ret = "none"

Next == EnergyStep \/ DetectStep \/ CheckStep \/ DispatchStep

Spec == Init /\ [][Next]_vars

\* The program: main entered with a command line, handle_options having
\* stored its defaults.
InitMain ==
  /\ pc = "getopt"
  /\ argv \in CommandLines
  /\ config = DefaultConfig
  /\ out = <<>>
  /\ exit_code = <<>>
  /\ burst = [len |-> 0, avg |-> 0]
  /\ fileRead = 0
  /\ type = config.type
  /\ reqType = config.type
  /\ SPSRx = 0
  /\ rc = 0
  /\ amp = 0
  /\ toa = 0
  /\ RSSI = [inf |-> FALSE, mdb |-> 0]
  /\ timingOffset = 0
  /\ calls = <<>>
  /\ ret = "none"

NextMain ==
  \/ GetoptStep \/ ValidateStep \/ MainSetup \/ MainCall
  \/ EnergyStep \/ DetectStep \/ CheckStep \/ DispatchStep \/ MainReturn

SpecMain == InitMain /\ [][NextMain]_vars

(***************************************************************************)
(* Properties                                                              *)
(***************************************************************************)
\* Number of calls of library function fn so far.
Count(fn) == Cardinality({i \in DOMAIN calls : calls[i].fn = fn})

Correlators == {"detectEdgeBurst", "analyzeTrafficBurst", "detectRACHBurst"}
CorrelatorCalls == Cardinality({i \in DOMAIN calls : calls[i].fn \in Correlators})
DemodulatorCalls == Count("demodEdgeBurst") + Count("demodulateBurst")

\* detectBurst has returned into demodulateBurst's rc.
Detected == pc \in {"check", "dispatch", "returned", "done"}

Clipping == "Clipping detected on received RACH or Normal Burst"
Unhandled == "Unhandled RACH or Normal Burst detection error"
InvalidType == "Invalid correlation type"

\* C1: for a requested type EDGE the EDGE correlator is called first and
\* once; a positive score gives EDGE without any call of the normal-burst
\* correlator; a non-positive one is followed by exactly one call of the
\* normal-burst correlator with threshold 5 and the normal-burst delay
\* bound, and a positive score of that call gives TSC, never EDGE.
C1_EdgeCascade ==
  (Detected /\ reqType = EDGE) =>
    /\ Count("detectEdgeBurst") = 1
    /\ Count("detectRACHBurst") = 0
    /\ calls[2] = Call("detectEdgeBurst",
                       <<config.rtsc, 5, config.rx_sps, config.max_expected_delay_nb>>,
                       calls[2].res)
    /\ calls[2].res[1] > 0 => (rc = EDGE /\ Count("analyzeTrafficBurst") = 0)
    /\ ~(calls[2].res[1] > 0) =>
         /\ Count("analyzeTrafficBurst") = 1
         /\ calls[3] = Call("analyzeTrafficBurst",
                            <<config.rtsc, 5, config.rx_sps, config.max_expected_delay_nb>>,
                            calls[3].res)
         /\ calls[3].res[1] > 0 => (rc = TSC /\ rc # EDGE)

C1_Witness ==
  /\ pc = "check"
  /\ reqType = EDGE
  /\ Len(calls) = 3
  /\ calls[2].res[1] = -SIGERR_CLIP
  /\ calls[3].res[1] > 0
  /\ rc = TSC

\* C2: the EDGE demodulator is called exactly when detectBurst returned
\* EDGE; any other positive result calls the generic demodulator; a
\* positive result calls exactly one demodulator, and never more than one
\* demodulator is called.
C2_Dispatch ==
  /\ DemodulatorCalls <= 1
  /\ Count("demodEdgeBurst") = 1 => (Detected /\ rc = EDGE)
  /\ Count("demodulateBurst") = 1 => (Detected /\ rc > 0 /\ rc # EDGE)
  /\ pc = "returned" =>
       /\ Count("demodEdgeBurst") = 1 <=> rc = EDGE
       /\ (rc > 0 /\ rc # EDGE) => Count("demodulateBurst") = 1
       /\ rc > 0 => DemodulatorCalls = 1

C2_Witness ==
  /\ pc = "returned"
  /\ reqType = EDGE
  /\ rc = TSC
  /\ Count("demodulateBurst") = 1
  /\ Count("demodEdgeBurst") = 0

\* C3 as stated: after a non-positive code demodulateBurst returns null
\* without a demodulator call, the clipping code leaves exactly the clipping
\* warning, SIGERR_NONE leaves no message at all, any other code leaves
\* exactly the unhandled-error warning, and the process goes on.
C3_Original ==
  (pc = "returned" /\ ~(rc > 0)) =>
    /\ ret = "NULL"
    /\ DemodulatorCalls = 0
    /\ exit_code = <<>>
    /\ out = IF rc = -SIGERR_CLIP THEN <<Clipping>>
             ELSE IF rc = SIGERR_NONE THEN <<>>
             ELSE <<Unhandled>>

\* C3 amended: as above, except that with SIGERR_NONE the only message
\* there can be is detectBurst's "Invalid correlation type", which is
\* logged exactly when the requested type is none of EDGE, TSC, RACH, IDLE;
\* demodulateBurst itself adds nothing.
C3_AbortMessages ==
  (pc = "returned" /\ ~(rc > 0)) =>
    /\ ret = "NULL"
    /\ DemodulatorCalls = 0
    /\ exit_code = <<>>
    /\ out = IF rc = -SIGERR_CLIP THEN <<Clipping>>
             ELSE IF rc = SIGERR_NONE
                  THEN (IF reqType \in {EDGE, TSC, RACH, IDLE} THEN <<>> ELSE <<InvalidType>>)
             ELSE <<Unhandled>>

C3_Witness ==
  /\ pc = "returned"
  /\ rc = -SIGERR_CLIP
  /\ ret = "NULL"
  /\ out = <<Clipping>>

\* C4: for a requested type IDLE detectBurst calls no correlator and returns
\* SIGERR_NONE; demodulateBurst then returns null, calls no demodulator,
\* writes no message, and has called the energy estimator and set RSSI.
C4_Idle ==
  reqType = IDLE =>
    /\ CorrelatorCalls = 0
    /\ DemodulatorCalls = 0
    /\ out = <<>>
    /\ Detected => rc = SIGERR_NONE
    /\ pc = "returned" =>
         /\ ret = "NULL"
         /\ Count("energyDetect") = 1
         /\ RSSI = RssiOf(config.rx_full_scale, burst.avg)

C4_Witness ==
  /\ pc = "returned"
  /\ reqType = IDLE
  /\ rc = SIGERR_NONE
  /\ ret = "NULL"

\* C5: once demodulateBurst is past its first two statements, the first
\* library call made was the energy estimator with window 20 * rx_sps and a
\* zero third argument, and RSSI is 20 log10(full scale / average); this
\* holds before, during and after detection, whatever is returned.
C5_Rssi ==
  /\ pc = "energy" => calls = <<>>
  /\ pc \in {"detect", "check", "dispatch", "returned"} =>
       /\ calls[1] = Call("energyDetect", <<20 * config.rx_sps, 0>>, <<burst.avg>>)
       /\ Count("energyDetect") = 1
       /\ RSSI = RssiOf(config.rx_full_scale, burst.avg)

C5_Witness ==
  /\ pc = "returned"
  /\ ret = "NULL"
  /\ rc = -SIGERR_INTERNAL
  /\ burst.avg = 100
  /\ RSSI = [inf |-> FALSE, mdb |-> 50308]

\* C6 as stated: after every invocation of demodulateBurst in which a
\* correlator produced a time of arrival, timingOffset is that time of
\* arrival (the last one produced) divided by SPSRx (timingOffset is in
\* quarter symbols).
C6_Original ==
  pc = "returned" =>
    \A i \in DOMAIN calls :
      (/\ calls[i].fn \in Correlators
       /\ \A j \in DOMAIN calls : calls[j].fn \in Correlators => j <= i)
      => timingOffset * SPSRx = 4 * calls[i].res[3]

\* C6 amended: after every invocation in which detectBurst returned a
\* positive code, timingOffset is the time of arrival written by the last
\* correlator call divided by SPSRx.
C6_TimingOffset ==
  (pc = "returned" /\ rc > 0) =>
    /\ timingOffset * SPSRx = 4 * toa
    /\ \E i \in DOMAIN calls :
         /\ calls[i].fn \in Correlators
         /\ \A j \in DOMAIN calls : calls[j].fn \in Correlators => j <= i
         /\ toa = calls[i].res[3]

C6_Witness ==
  /\ pc = "returned"
  /\ rc > 0
  /\ SPSRx = 4
  /\ toa = 1
  /\ timingOffset = 1

\* handle_options has finished its option loop and checked the configuration.
Validated == pc \notin {"getopt", "help_exit", "crashed"}
Accepted == Validated /\ pc # "rejected"
InDemodulate == pc \in {"energy", "detect", "check", "dispatch", "returned"}

\* C7 as stated: samples-per-symbol 1 or 4 with a training sequence index of
\* 0..7 is accepted; anything else is rejected before any library call.
C7_Original ==
  Validated =>
    IF config.rx_sps \in {1, 4} /\ config.rtsc \in 0..7
    THEN Accepted
    ELSE pc = "rejected" /\ calls = <<>>

\* C7 amended: a configuration that reaches the checks is accepted exactly
\* when samples-per-symbol is 1 or 4, the training sequence index is at most
\* 7 and EDGE is not enabled with samples-per-symbol 1; otherwise the process
\* exits before any energy estimation, detection or demodulation.
C7_Validation ==
  /\ Validated =>
       IF /\ config.rx_sps \in {1, 4}
          /\ config.rtsc \in 0..7
          /\ config.edge => config.rx_sps = 4
       THEN Accepted
       ELSE pc = "rejected"
  /\ pc \in {"rejected", "help_exit", "crashed"} => (calls = <<>> /\ exit_code # <<>>)
  /\ calls # <<>> => Accepted

C7_Witness ==
  /\ pc = "detect"
  /\ config.rx_sps = 4
  /\ config.rtsc = 7
  /\ calls # <<>>

\* C8 as stated: EDGE with samples-per-symbol 1 is rejected, EDGE with
\* samples-per-symbol 4 is accepted, demodulateBurst only runs with a valid
\* configuration, and every exit of handle_options is exit(0) after the
\* usage text.
C8_Original ==
  /\ Validated =>
       /\ (config.edge /\ config.rx_sps = 1) => pc = "rejected"
       /\ (config.edge /\ config.rx_sps = 4) => Accepted
  /\ InDemodulate =>
       /\ config.edge => config.rx_sps = 4
       /\ config.rx_sps \in {1, 4}
       /\ config.rtsc <= 7
  /\ pc \in {"rejected", "help_exit"} =>
       (exit_code = <<0>> /\ out # <<>> /\ out[Len(out)] = "help")

\* C8 amended: EDGE with samples-per-symbol 4 is accepted when the training
\* sequence index is at most 7; the rest as stated.
C8_EdgeCoupling ==
  /\ Validated =>
       /\ (config.edge /\ config.rx_sps = 1) => pc = "rejected"
       /\ (config.edge /\ config.rx_sps = 4 /\ config.rtsc <= 7) => Accepted
  /\ InDemodulate =>
       /\ config.edge => config.rx_sps = 4
       /\ config.rx_sps \in {1, 4}
       /\ config.rtsc <= 7
  /\ pc \in {"rejected", "help_exit"} =>
       (exit_code = <<0>> /\ out # <<>> /\ out[Len(out)] = "help")

C8_Witness ==
  /\ pc = "energy"
  /\ config.edge
  /\ config.rx_sps = 4
  /\ config.rtsc = 7

\* C9: the burst handed to demodulateBurst has 156 * rx_sps samples, and
\* twice as many floats were asked from the input file.
C9_BurstLength ==
  InDemodulate =>
    /\ burst.len = BURST_SIZE * config.rx_sps
    /\ fileRead = BURST_SIZE * config.rx_sps * 2

\* C10: when the requested type is EDGE and the EDGE correlator returns a
\* non-positive code, that code is dropped: rc, amp and toa are what the
\* following normal-burst correlator call gives (TSC for a positive score,
\* its code otherwise); an EDGE clipping code followed by SIGERR_NONE ends
\* demodulateBurst with null and without any message.
C10_EdgeCodeDiscarded ==
  (Detected /\ reqType = EDGE /\ ~(calls[2].res[1] > 0)) =>
    /\ calls[3].fn = "analyzeTrafficBurst"
    /\ rc = IF calls[3].res[1] > 0 THEN TSC ELSE calls[3].res[1]
    /\ amp = calls[3].res[2]
    /\ toa = calls[3].res[3]
    /\ (pc = "returned" /\ calls[2].res[1] = -SIGERR_CLIP /\ calls[3].res[1] = SIGERR_NONE) =>
         (ret = "NULL" /\ out = <<>>)

C10_Witness ==
  /\ pc = "returned"
  /\ reqType = EDGE
  /\ Len(calls) = 3
  /\ calls[2].res = <<-SIGERR_CLIP, 1, 1>>
  /\ calls[3].res = <<SIGERR_NONE, 2, 0>>
  /\ amp = 2
  /\ toa = 0
  /\ ret = "NULL"
  /\ out = <<>>

====
